---- MODULE Spec2Model ----
(***************************************************************************)
(* Beer inventory reconciliation (app.py, Invoice_parsing.py,              *)
(* gemini_processor.py).                                                   *)
(*                                                                         *)
(* A DataFrame is [cols |-> sequence of labels, rows |-> sequence of rows], *)
(* a row being a sequence of cells aligned with cols.  A cell is a tagged  *)
(* scalar: a Python str (a sequence of one-character strings), a float64   *)
(* (h counts halves: the value is h/2, so 3.0 is h = 6 and 0.5 is h = 1),  *)
(* an int, or NaN.                                                         *)
(*                                                                         *)
(* Spec follows one press of Run through the script; SpecRecon applies     *)
(* update_master_sheet alone to drawn tables.                              *)
(***************************************************************************)
EXTENDS Integers, Sequences, FiniteSets, TLC

VARIABLES
    pc,            \* position of the Run script (app.py 142-184) / of the pure check
    invoice_up,    \* beer_store_invoice_upload: "none" or "pdf"
    sales_up,      \* sales_excel_upload: NoUpload or the sheet read_excel will see
    master_up,     \* beer_store_master_upload: NoUpload or the sheet read_excel sees
    master_df,     \* module-level master_df (None, or a DataFrame)
    sales_df,      \* module-level sales_df
    invoice_df,    \* module-level beer_store_invoice_df
    parsed,        \* what ip.main returned on line 151, before cleaning
    tempfiles,     \* local files made by tempfile.NamedTemporaryFile(delete=False)
    remote,        \* files held by the extraction adapter (client.files)
    gen,           \* how the last generate_content call ended
    salesRes,      \* what the last clean_sales_xlsx call did: [err, tab]
    result,        \* what update_master_sheet returned: [err, tab], or NoResult
    outcome        \* how the run ended

vars == <<pc, invoice_up, sales_up, master_up, master_df, sales_df, invoice_df,
          parsed, tempfiles, remote, gen, salesRes, result, outcome>>

----------------------------------------------------------------------------
(* Cells                                                                   *)

Str(s) == [t |-> "str", s |-> s, h |-> 0]
Flt(h) == [t |-> "float", s |-> <<>>, h |-> h]
IntC(n) == [t |-> "int", s |-> <<>>, h |-> n]
NaN == [t |-> "nan", s |-> <<>>, h |-> 0]

IsNull(c) == c.t = "nan"

Abs(n) == IF n < 0 THEN 0 - n ELSE n

\* float -> int conversion of Python and numpy: truncation toward zero.
\* h counts halves.
Trunc(h) == IF h >= 0 THEN h \div 2 ELSE 0 - ((0 - h) \div 2)

DigitChar(d) ==
    CASE d = 0 -> "0" [] d = 1 -> "1" [] d = 2 -> "2" [] d = 3 -> "3"
      [] d = 4 -> "4" [] d = 5 -> "5" [] d = 6 -> "6" [] d = 7 -> "7"
      [] d = 8 -> "8" [] d = 9 -> "9"

RECURSIVE Digits(_)
Digits(n) == IF n < 10 THEN <<DigitChar(n)>>
             ELSE Digits(n \div 10) \o <<DigitChar(n % 10)>>

Signed(n) == (IF n < 0 THEN <<"-">> ELSE <<>>) \o Digits(Abs(n))

\* str(x) / Series.astype(str) of one cell.
PyStr(c) ==
    CASE c.t = "str" -> c.s
      [] c.t = "int" -> Signed(c.h)
      [] c.t = "float" ->
            (IF c.h < 0 THEN <<"-">> ELSE <<>>) \o Digits(Abs(c.h) \div 2)
                \o <<".", IF c.h % 2 = 0 THEN "0" ELSE "5">>
      [] c.t = "nan" -> <<"n", "a", "n">>

IsSpace(ch) == ch = " "

RECURSIVE LStrip(_)
LStrip(s) == IF s # <<>> /\ IsSpace(Head(s)) THEN LStrip(Tail(s)) ELSE s

RECURSIVE RStrip(_)
RStrip(s) == IF s # <<>> /\ IsSpace(s[Len(s)])
             THEN RStrip(SubSeq(s, 1, Len(s) - 1)) ELSE s

\* str.strip()
Strip(s) == RStrip(LStrip(s))

\* str.lstrip('0')
RECURSIVE LStripZero(_)
LStripZero(s) == IF s # <<>> /\ Head(s) = "0" THEN LStripZero(Tail(s)) ELSE s

IsHyphen(ch) == ch = "-"
NotHyphen(ch) == ~IsHyphen(ch)

\* str.replace('-', '', regex=False)
RemoveHyphen(s) == SelectSeq(s, NotHyphen)

\* 'sub' in s
Contains(s, sub) ==
    \E i \in 1..(Len(s) - Len(sub) + 1) : SubSeq(s, i, i + Len(sub) - 1) = sub

IsDigit(ch) == ch \in {"0", "1", "2", "3", "4", "5", "6", "7", "8", "9"}

DigitVal(ch) ==
    CASE ch = "0" -> 0 [] ch = "1" -> 1 [] ch = "2" -> 2 [] ch = "3" -> 3
      [] ch = "4" -> 4 [] ch = "5" -> 5 [] ch = "6" -> 6 [] ch = "7" -> 7
      [] ch = "8" -> 8 [] ch = "9" -> 9

RECURSIVE DigitsVal(_)
DigitsVal(s) == IF s = <<>> THEN 0
                ELSE 10 * DigitsVal(SubSeq(s, 1, Len(s) - 1)) + DigitVal(s[Len(s)])

AllDigits(s) == s # <<>> /\ \A i \in 1..Len(s) : IsDigit(s[i])

\* int(x) of Python for the cells the invoice column can hold: a float is
\* truncated; a str is stripped of surrounding whitespace and must then be an
\* optionally signed run of digits, anything else is a ValueError.
PyInt(c) ==
    CASE c.t = "int" -> [err |-> "none", n |-> c.h]
      [] c.t = "float" -> [err |-> "none", n |-> Trunc(c.h)]
      [] c.t = "str" ->
            LET u == Strip(c.s)
                neg == u # <<>> /\ Head(u) = "-"
                body == IF u # <<>> /\ Head(u) \in {"-", "+"} THEN Tail(u) ELSE u
            IN  IF AllDigits(body)
                THEN [err |-> "none",
                      n |-> IF neg THEN 0 - DigitsVal(body) ELSE DigitsVal(body)]
                ELSE [err |-> "ValueError", n |-> 0]
      [] c.t = "nan" -> [err |-> "ValueError", n |-> 0]

----------------------------------------------------------------------------
(* DataFrames                                                              *)

\* Column labels.  A str whose inner spelling no operation looks into is
\* written as one chunk.
UPC == Str(<<"UPC">>)
UPCCode == Str(<<"UPC Code">>)
ItemNo == Str(<<"Item No">>)
EntryType == Str(<<"Entry Type">>)
Units == Str(<<"Units">>)
Description == Str(<<"Description">>)
ProductDescription == Str(<<"Product Description">>)
QuantityConfirmed == Str(<<"Quantity Confirmed">>)
current_stock == Str(<<"current_stock">>)
sold_product_name == Str(<<"sold_product_name">>)
recived_product_name == Str(<<"recived_product_name">>)
quantity_sold == Str(<<"quantity_sold">>)
quantity_received == Str(<<"quantity_received">>)
new_stock == Str(<<"new_stock">>)

DataFrame(cols, rows) == [cols |-> cols, rows |-> rows]

\* pd.DataFrame()
EmptyFrame == DataFrame(<<>>, <<>>)

\* DataFrame.empty: some axis has length 0.
IsEmpty(df) == Len(df.cols) = 0 \/ Len(df.rows) = 0

HasCol(df, lab) == \E i \in 1..Len(df.cols) : df.cols[i] = lab

ColIdx(df, lab) ==
    CHOOSE i \in 1..Len(df.cols) :
        df.cols[i] = lab /\ \A j \in 1..(i - 1) : df.cols[j] # lab

\* df[lab] of one row
Cell(df, row, lab) == row[ColIdx(df, lab)]

\* df.rename(columns={old: new})
Rename(df, old, new) ==
    [df EXCEPT !.cols = [i \in 1..Len(df.cols) |->
                            IF df.cols[i] = old THEN new ELSE df.cols[i]]]

\* df[lab] = F(df[lab]), element by element
MapCol(df, lab, F(_)) ==
    [df EXCEPT !.rows = [r \in 1..Len(df.rows) |->
        [df.rows[r] EXCEPT ![ColIdx(df, lab)] = F(df.rows[r][ColIdx(df, lab)])]]]

\* df[lab] = F(row), a new last column
AddCol(df, lab, F(_)) ==
    [cols |-> Append(df.cols, lab),
     rows |-> [r \in 1..Len(df.rows) |-> Append(df.rows[r], F(df.rows[r]))]]

FilterRows(rows, Keep(_)) == SelectSeq(rows, Keep)

RowHasNull(row) == \E i \in 1..Len(row) : IsNull(row[i])

\* Series dtype == object: the column holds Python objects.  read_excel and
\* read_csv give float64/int64 to a column of numbers and blanks only.
IsObjectCol(df, lab) ==
    df.rows = <<>> \/ \E r \in 1..Len(df.rows) : Cell(df, df.rows[r], lab).t = "str"

Fail(e) == [err |-> e, tab |-> EmptyFrame]
Ok(df) == [err |-> "none", tab |-> df]

----------------------------------------------------------------------------
(* The three cleaners (app.py 71-104)                                      *)

\* a Series.str method on one element: an element that is no str gives NaN
MasterReplaceStrip(c) ==
    IF c.t = "str" THEN Str(Strip(RemoveHyphen(c.s))) ELSE NaN

MasterLStrip(c) == IF c.t = "str" THEN Str(LStripZero(c.s)) ELSE NaN

\* clean_beer_store_master: df['UPC'] raises KeyError without the column, and
\* the .str accessor raises AttributeError on a column that is not of strings.
\* After line 97 the column is of dtype object, so line 98 always strips.
clean_beer_store_master(df) ==
    IF ~HasCol(df, UPC) THEN Fail("KeyError")
    ELSE IF ~IsObjectCol(df, UPC) THEN Fail("AttributeError")
    ELSE Ok(MapCol(MapCol(df, UPC, MasterReplaceStrip), UPC, MasterLStrip))

InvoiceKey(c) == IF IsNull(c) THEN c ELSE Str(Signed(PyInt(c).n))

InvoiceKeyNotNull(df, row) == ~IsNull(Cell(df, row, UPCCode))

\* clean_beer_store_invoice_df: str(int(x)) of every non-null identifier, then
\* dropna(subset=['UPC Code']).
clean_beer_store_invoice_df(df) ==
    IF ~HasCol(df, UPCCode) THEN Fail("KeyError")
    ELSE IF \E r \in 1..Len(df.rows) :
                LET c == Cell(df, df.rows[r], UPCCode)
                IN  ~IsNull(c) /\ PyInt(c).err # "none"
         THEN Fail("ValueError")
    ELSE LET d == MapCol(df, UPCCode, InvoiceKey)
         IN  Ok([d EXCEPT !.rows =
                    FilterRows(d.rows, LAMBDA row : InvoiceKeyNotNull(d, row))])

\* sales_df.drop(sales_df.columns[0], axis=1)
DropFirstCol(df) ==
    [cols |-> Tail(df.cols), rows |-> [r \in 1..Len(df.rows) |-> Tail(df.rows[r])]]

\* row.astype(str).str.contains(tok).any()
RowContains(row, tok) == \E i \in 1..Len(row) : Contains(PyStr(row[i]), tok.s)

IsHeaderRow(row) == RowContains(row, EntryType) /\ RowContains(row, ItemNo)

\* header_row_idx: the rows holding both tokens
HeaderRows(df) == {r \in 1..Len(df.rows) : IsHeaderRow(df.rows[r])}

\* lines 80-84: promote the first such row to header, keep the rows below it
PromoteHeader(df) ==
    IF HeaderRows(df) # {}
    THEN LET h == CHOOSE r \in HeaderRows(df) : \A q \in HeaderRows(df) : r <= q
         IN  [cols |-> df.rows[h], rows |-> SubSeq(df.rows, h + 1, Len(df.rows))]
    ELSE df

SalesKey(c) == Str(Strip(PyStr(c)))

RowComplete(row) == ~RowHasNull(row)

\* clean_sales_xlsx: columns[0] raises IndexError on a frame without columns,
\* and df['Item No'] raises KeyError when no column carries that label.
clean_sales_xlsx(df) ==
    IF Len(df.cols) = 0 THEN Fail("IndexError")
    ELSE LET promoted == PromoteHeader(DropFirstCol(df))
         IN  IF ~HasCol(promoted, ItemNo) THEN Fail("KeyError")
             ELSE LET d == MapCol(promoted, ItemNo, SalesKey)
                  IN  Ok([d EXCEPT !.rows = FilterRows(d.rows, RowComplete)])

----------------------------------------------------------------------------
(* update_master_sheet (app.py 6-69)                                       *)

\* Series.astype(str).str.strip()
KeyStr(c) == Str(Strip(PyStr(c)))

\* pd.to_numeric(errors='coerce') of one element; a float counts halves.
\* Of strings only unsigned digit runs are read as numbers here.
ToNumeric(c) ==
    CASE c.t = "float" -> c
      [] c.t = "int" -> Flt(2 * c.h)
      [] c.t = "str" -> IF AllDigits(Strip(c.s))
                        THEN Flt(2 * DigitsVal(Strip(c.s))) ELSE NaN
      [] c.t = "nan" -> NaN

\* fillna whose result is dropped, as on lines 55-56
FillNaDropped(c) == c

\* .fillna(0)
FillNa0(c) == IF IsNull(c) THEN Flt(0) ELSE c

\* pd.to_numeric(..., errors='coerce').fillna(0)
Coerce(c) == FillNa0(ToNumeric(c))

RECURSIVE DistinctKeys(_, _)
DistinctKeys(keys, seen) ==
    IF keys = <<>> THEN <<>>
    ELSE IF Head(keys) \in seen THEN DistinctKeys(Tail(keys), seen)
    ELSE <<Head(keys)>> \o DistinctKeys(Tail(keys), seen \cup {Head(keys)})

\* the last quantity of the group instead of the sum
SumQtyOverwritten(cells) == IF cells = <<>> THEN 0 ELSE cells[Len(cells)].h

\* sum of a float column
RECURSIVE SumQty(_)
SumQty(cells) == IF cells = <<>> THEN 0 ELSE Head(cells).h + SumQty(Tail(cells))

\* sum of a column of str: concatenation (every name that reaches a groupby
\* here is a str: the tables drawn hold no other, and dropna removed the blanks)
RECURSIVE SumNames(_)
SumNames(cells) == IF cells = <<>> THEN <<>> ELSE Head(cells).s \o SumNames(Tail(cells))

ColumnOf(df, rows, lab) == [r \in 1..Len(rows) |-> Cell(df, rows[r], lab)]

\* one summary row per transaction row: no grouping
GroupKeysUngrouped(df) == ColumnOf(df, df.rows, UPC)

\* the keys of the groups of df.groupby('UPC'): each key once.  (pandas sorts
\* them; the left merges below read the summary by key only.)
GroupKeys(df) == DistinctKeys(ColumnOf(df, df.rows, UPC), {})

\* df.groupby('UPC')[[nameLab, qtyLab]].sum().reset_index(), renamed
GroupSum(df, nameLab, qtyLab, outName, outQty) ==
    LET keys == GroupKeys(df)
        Group(k) == FilterRows(df.rows, LAMBDA row : Cell(df, row, UPC) = k)
    IN  [cols |-> <<UPC, outName, outQty>>,
         rows |-> [g \in 1..Len(keys) |->
                     <<keys[g],
                       Str(SumNames(ColumnOf(df, Group(keys[g]), nameLab))),
                       Flt(SumQty(ColumnOf(df, Group(keys[g]), qtyLab)))>>]]

RemoveAt(seq, i) == SubSeq(seq, 1, i - 1) \o SubSeq(seq, i + 1, Len(seq))

RECURSIVE Flatten(_)
Flatten(ss) == IF ss = <<>> THEN <<>> ELSE Head(ss) \o Flatten(Tail(ss))

\* the rows a left row becomes in pd.merge(left, right, on='UPC', how='left'):
\* one per right row with its key, or one filled with NaN when there is none
MergeRow(left, right, lrow) ==
    LET k == ColIdx(right, UPC)
        m == FilterRows(right.rows,
                        LAMBDA rrow : rrow[k] = Cell(left, lrow, UPC))
    IN  IF m = <<>>
        THEN <<lrow \o [i \in 1..(Len(right.cols) - 1) |-> NaN]>>
        ELSE [j \in 1..Len(m) |-> lrow \o RemoveAt(m[j], k)]

\* pd.merge(left, right, on='UPC', how='left')
MergeLeft(left, right) ==
    [cols |-> left.cols \o RemoveAt(right.cols, ColIdx(right, UPC)),
     rows |-> Flatten([r \in 1..Len(left.rows) |-> MergeRow(left, right, left.rows[r])])]

\* .astype(int) of one element
AsInt(c) == IF c.t = "float" THEN IntC(Trunc(c.h)) ELSE c

\* received and sold swapped
NewStockSwapped(cs, qr, qs) ==
    IF IsNull(cs) \/ IsNull(qr) \/ IsNull(qs) THEN NaN ELSE Flt(cs.h - qr.h + qs.h)

\* lines 60-64, on floats: NaN in, NaN out
NewStock(cs, qr, qs) ==
    IF IsNull(cs) \/ IsNull(qr) \/ IsNull(qs) THEN NaN ELSE Flt(cs.h + qr.h - qs.h)

ColHasNull(df, lab) == \E r \in 1..Len(df.rows) : IsNull(Cell(df, df.rows[r], lab))

update_master_sheet(m_df, s_df, i_df) ==
    LET master0 == Rename(m_df, UPCCode, UPC)
        sales0 == Rename(s_df, ItemNo, UPC)
        invoices0 == Rename(i_df, UPCCode, UPC)
    IN  IF ~HasCol(master0, UPC) \/ ~HasCol(sales0, UPC) \/ ~HasCol(invoices0, UPC)
           \/ ~HasCol(sales0, Units) \/ ~HasCol(invoices0, QuantityConfirmed)
           \/ ~HasCol(sales0, Description) \/ ~HasCol(invoices0, ProductDescription)
        THEN Fail("KeyError")
        ELSE
        LET master1 == MapCol(master0, UPC, KeyStr)
            master == IF HasCol(master1, current_stock)
                      THEN MapCol(master1, current_stock, Coerce)
                      ELSE AddCol(master1, current_stock, LAMBDA row : Flt(0))
            sales == MapCol(MapCol(sales0, UPC, KeyStr), Units, Coerce)
            invoices == MapCol(MapCol(invoices0, UPC, KeyStr), QuantityConfirmed, Coerce)
            sales_summary ==
                GroupSum(sales, Description, Units, sold_product_name, quantity_sold)
            invoice_summary ==
                GroupSum(invoices, ProductDescription, QuantityConfirmed,
                         recived_product_name, quantity_received)
            merged == MergeLeft(MergeLeft(master, sales_summary), invoice_summary)
            filled == MapCol(MapCol(merged, quantity_sold, FillNa0),
                             quantity_received, FillNa0)
            stocked == AddCol(filled, new_stock,
                              LAMBDA row : NewStock(Cell(filled, row, current_stock),
                                                    Cell(filled, row, quantity_received),
                                                    Cell(filled, row, quantity_sold)))
        IN  \* astype(int) raises on a column that still holds NaN
            IF \E lab \in {current_stock, quantity_sold, quantity_received, new_stock} :
                    ColHasNull(stocked, lab)
            THEN Fail("IntCastingNaNError")
            ELSE Ok(MapCol(MapCol(MapCol(MapCol(stocked, current_stock, AsInt),
                                         quantity_sold, AsInt),
                                  quantity_received, AsInt),
                           new_stock, AsInt))

----------------------------------------------------------------------------
(* State shared by the specifications                                      *)

None == [err |-> "None", tab |-> EmptyFrame]
NoResult == [err |-> "not called", tab |-> EmptyFrame]
NoUpload == [err |-> "no upload", tab |-> EmptyFrame]

SeqsUpTo(S, n) == UNION {[1..k -> S] : k \in 0..n}

----------------------------------------------------------------------------
(* GeminiProcessor and Invoice_parsing.main                                *)

\* The file upload_file stores at the adapter for the PDF.
UploadedPdf == "invoice.pdf at adapter"

\* What the surroundings of one ip.main call do: whether GEMINI_API_KEY is
\* set, what prompt_template.md holds, whether client.files.upload and
\* client.files.delete succeed, how client.models.generate_content ends, and
\* the text it answers with.
Env(apiKey, prompt, upload, generate, delete, text) ==
    [apiKey |-> apiKey, prompt |-> prompt, upload |-> upload,
     generate |-> generate, delete |-> delete, text |-> text]

Raised(exc, files) == [how |-> "raised", exc |-> exc, remote |-> files]

\* delete_uploaded_file, lines 115-124: (exception or "none", files left)
delete_uploaded_file(uploaded, files, env) ==
    IF ~uploaded THEN [exc |-> "none", remote |-> files]
    ELSE IF env.delete = "ok" THEN [exc |-> "none", remote |-> files \ {UploadedPdf}]
    ELSE [exc |-> "DeleteError", remote |-> files]

\* generate_content, lines 126-168.  prompt and template are "None" or a text.
\* A response without text raises ValueError inside the try, which the except
\* branch logs and does not raise again: the function falls off its end.  When
\* the call itself raises, response is unbound in the except branch and reading
\* it raises UnboundLocalError.  The finally branch deletes the upload; an
\* exception of the deletion replaces the result.
generate_content(prompt, template, files, env) ==
    IF UploadedPdf \notin files THEN Raised("ValueError", files)
    ELSE IF prompt = "None" /\ template = "None" THEN Raised("ValueError", files)
    ELSE LET del == delete_uploaded_file(TRUE, files, env)
         IN  IF del.exc # "none" THEN Raised(del.exc, del.remote)
             ELSE CASE env.generate = "text" ->
                         [how |-> "returned response", exc |-> "none", remote |-> del.remote]
                    [] env.generate \in {"no text", "blocked"} ->
                         [how |-> "returned None", exc |-> "none", remote |-> del.remote]
                    [] env.generate = "call fails" ->
                         Raised("UnboundLocalError", del.remote)

\* A response text: a CSV body between optional fence lines.
Text(open, close, body) == [open |-> open, close |-> close, body |-> body]

EmptyBody == [err |-> "empty", tab |-> EmptyFrame]

\* Invoice_parsing.main lines 21-25
StripFences(text) == [text EXCEPT !.open = FALSE, !.close = FALSE]

\* pd.read_csv(StringIO(text)): EmptyDataError on an empty text; a fence line
\* left in the text would be read as data
read_csv(text) ==
    IF text.open \/ text.close THEN Fail("fence read as data")
    ELSE IF text.body = EmptyBody THEN Fail("EmptyDataError")
    ELSE text.body

MainResult(err, df, files, how) == [err |-> err, tab |-> df, remote |-> files, gen |-> how]

\* Invoice_parsing.main, with GeminiProcessor.__init__, load_prompt_template
\* and upload_file (gemini_processor.py 21-113)
main(files, env) ==
    IF ~env.apiKey THEN MainResult("ValueError", EmptyFrame, files, "not called")
    ELSE IF env.prompt = "no template in file"
         THEN MainResult("ValueError", EmptyFrame, files, "not called")
    ELSE IF env.upload = "fails"
         THEN MainResult("UploadError", EmptyFrame, files, "not called")
    ELSE LET prompt == IF env.prompt = "file not found" THEN "None" ELSE "prompt"
             g == generate_content(prompt, prompt, files \cup {UploadedPdf}, env)
         IN  IF g.how = "raised" THEN MainResult(g.exc, EmptyFrame, g.remote, g.how)
             ELSE IF g.how = "returned None"  \* response.text of None
                  THEN MainResult("AttributeError", EmptyFrame, g.remote, g.how)
             ELSE LET df == read_csv(StripFences(env.text))
                  IN  MainResult(df.err, df.tab, g.remote, g.how)

----------------------------------------------------------------------------
(* The Run script (app.py 132-184)                                         *)

MaxRunLedgerRows == 2
MaxRunSalesRows == 1
MaxRunInvoiceRows == 1
MaxDecorRows == 1

\* Product 12 as a sheet cell may spell it: plain, with a leading zero, with a
\* hyphen, with a blank inside, as the float 12.0; and a blank cell.
Plain12 == Str(<<"1", "2">>)
Zero12 == Str(<<"0", "1", "2">>)
Hyphen12 == Str(<<"1", "-", "2">>)
Blank12 == Str(<<"1", " ", "2">>)
Float12 == Flt(24)
ExcelKeys == {Plain12, Zero12, Hyphen12, Blank12, Float12, NaN}

\* read_csv reads 12 and 012 as the int 12 and 12.0 as a float; text with a
\* hyphen or a blank inside stays a str
CsvKeys == {IntC(12), Float12, Hyphen12, Blank12, NaN}

LedgerSheets ==
    {DataFrame(<<UPC, current_stock>>, rows) :
        rows \in SeqsUpTo({<<k, IntC(2)>> : k \in ExcelKeys}, MaxRunLedgerRows)}
    \cup {DataFrame(<<UPC>>, <<<<Plain12>>>>)}

\* the labels read_excel gives to columns without a header cell
Unnamed(n) == [i \in 1..n |-> Str(<<"Unnamed: ", Digits(i - 1)[1]>>)]

SalesHeader == <<NaN, EntryType, ItemNo, Description, Units>>
\* a header whose identifier cell reads 'Item No.'
DottedHeader == <<NaN, EntryType, Str(<<"Item No", ".">>), Description, Units>>
DecorRow == <<NaN, Str(<<"Sales report">>), NaN, NaN, NaN>>

SalesDataRows ==
    {<<NaN, Str(<<"Sale">>), k, d, IntC(1)>> : k \in ExcelKeys, d \in {Str(<<"a">>), NaN}}

\* What read_excel gives for the sales sheet: the header embedded below
\* decorative rows (the labels are then Unnamed: i), the header as the labels,
\* or no header at all.
SalesSheets ==
    {DataFrame(Unnamed(5), [i \in 1..n |-> DecorRow] \o <<hd>> \o rows) :
        n \in 0..MaxDecorRows, hd \in {SalesHeader, DottedHeader},
        rows \in SeqsUpTo(SalesDataRows, MaxRunSalesRows)}
    \cup {DataFrame(lab, rows) :
            lab \in {Unnamed(1) \o Tail(SalesHeader), Unnamed(5)},
            rows \in SeqsUpTo(SalesDataRows, MaxRunSalesRows)}
    \cup {EmptyFrame}

InvoiceBodies ==
    {Ok(DataFrame(<<UPCCode, ProductDescription, QuantityConfirmed>>, rows)) :
        rows \in SeqsUpTo({<<k, Str(<<"b">>), IntC(1)>> : k \in CsvKeys}, MaxRunInvoiceRows)}
    \cup {Ok(DataFrame(<<ProductDescription, QuantityConfirmed>>,
                       <<<<Str(<<"b">>), IntC(1)>>>>))}

NoText == Text(FALSE, FALSE, EmptyBody)

\* a text is not empty: an empty body comes with a fence
Texts ==
    {Text(o, c, b) : o \in BOOLEAN, c \in BOOLEAN, b \in InvoiceBodies}
    \cup {Text(TRUE, TRUE, EmptyBody)}

Envs ==
    {Env(FALSE, "ok", "ok", "text", "ok", NoText),
     Env(TRUE, "no template in file", "ok", "text", "ok", NoText),
     Env(TRUE, "file not found", "ok", "text", "ok", NoText),
     Env(TRUE, "ok", "fails", "text", "ok", NoText)}
    \cup {Env(TRUE, "ok", "ok", g, d, NoText) :
            g \in {"no text", "blocked", "call fails"}, d \in {"ok", "fails"}}
    \cup {Env(TRUE, "ok", "ok", "text", "fails", NoText)}
    \cup {Env(TRUE, "ok", "ok", "text", "ok", t) : t \in Texts}

Running == [kind |-> "running", exc |-> "none"]
Exception(exc) == [kind |-> "exception", exc |-> exc]
Ended(kind) == [kind |-> kind, exc |-> "none"]

Init ==
    /\ pc = "invoice"
    /\ invoice_up \in {"none", "pdf"}
    /\ sales_up \in {NoUpload} \cup {Ok(df) : df \in SalesSheets}
    /\ master_up \in {NoUpload} \cup {Ok(df) : df \in LedgerSheets}
    /\ master_df = None                 \* line 132
    /\ sales_df = EmptyFrame            \* line 133
    /\ invoice_df = EmptyFrame          \* line 134
    /\ parsed = NoResult
    /\ tempfiles = {}
    /\ remote = {}
    /\ gen = "not called"
    /\ salesRes = NoResult
    /\ result = NoResult
    /\ outcome = Running

\* an uncaught exception ends the script run
Abort(exc) ==
    /\ pc' = "done"
    /\ outcome' = Exception(exc)

\* lines 144-153
InvoiceStep ==
    /\ pc = "invoice"
    /\ IF invoice_up = "none"
       THEN /\ pc' = "sales"
            /\ UNCHANGED <<invoice_df, parsed, tempfiles, remote, gen, outcome>>
       ELSE \E env \in Envs :
              LET m == main(remote, env)
                  cleaned == clean_beer_store_invoice_df(m.tab)
              IN  /\ tempfiles' = tempfiles \cup {"invoice.pdf"}
                  /\ remote' = m.remote
                  /\ gen' = m.gen
                  /\ parsed' = [err |-> m.err, tab |-> m.tab]
                  /\ IF m.err # "none"
                     THEN Abort(m.err) /\ UNCHANGED invoice_df
                     ELSE IF cleaned.err # "none"
                          THEN Abort(cleaned.err) /\ UNCHANGED invoice_df
                          ELSE /\ invoice_df' = cleaned.tab
                               /\ pc' = "sales"
                               /\ UNCHANGED outcome
    /\ UNCHANGED <<invoice_up, sales_up, master_up, master_df, sales_df, salesRes, result>>

\* lines 155-160
SalesStep ==
    /\ pc = "sales"
    /\ IF sales_up = NoUpload
       THEN /\ pc' = "master"
            /\ UNCHANGED <<sales_df, tempfiles, salesRes, outcome>>
       ELSE LET cleaned == clean_sales_xlsx(sales_up.tab)
            IN  /\ tempfiles' = tempfiles \cup {"sales sheet"}
                /\ salesRes' = cleaned
                /\ IF cleaned.err # "none"
                   THEN Abort(cleaned.err) /\ UNCHANGED sales_df
                   ELSE /\ sales_df' = cleaned.tab
                        /\ pc' = "master"
                        /\ UNCHANGED outcome
    /\ UNCHANGED <<invoice_up, sales_up, master_up, master_df, invoice_df, parsed,
                   remote, gen, result>>

\* lines 163-168
MasterStep ==
    /\ pc = "master"
    /\ IF master_up = NoUpload
       THEN /\ pc' = "gate"
            /\ UNCHANGED <<master_df, tempfiles, outcome>>
       ELSE LET cleaned == clean_beer_store_master(master_up.tab)
            IN  /\ tempfiles' = tempfiles \cup {"master sheet"}
                /\ IF cleaned.err # "none"
                   THEN Abort(cleaned.err) /\ UNCHANGED master_df
                   ELSE /\ master_df' = cleaned
                        /\ pc' = "gate"
                        /\ UNCHANGED outcome
    /\ UNCHANGED <<invoice_up, sales_up, master_up, sales_df, invoice_df, parsed,
                   remote, gen, salesRes, result>>

\* line 170
GateOpen == master_df # None /\ ~IsEmpty(sales_df) /\ ~IsEmpty(invoice_df)

\* lines 170-184
Gate ==
    /\ pc = "gate"
    /\ pc' = "done"
    /\ IF GateOpen
       THEN LET updated == update_master_sheet(master_df.tab, sales_df, invoice_df)
            IN  /\ result' = updated
                /\ outcome' = IF updated.err # "none" THEN Exception(updated.err)
                              ELSE Ended("reconciled")
       ELSE /\ outcome' = IF master_df = None THEN Ended("Please upload the master sheet.")
                          ELSE Ended("Please upload at least one of the sales Excel or beer store invoice PDF.")
            /\ UNCHANGED result
    /\ UNCHANGED <<invoice_up, sales_up, master_up, master_df, sales_df, invoice_df,
                   parsed, tempfiles, remote, gen, salesRes>>

Next == InvoiceStep \/ SalesStep \/ MasterStep \/ Gate

Spec == Init /\ [][Next]_vars

----------------------------------------------------------------------------
(* Claims about the Run script, checked under Spec                         *)

\* the spellings of product 12 the claim names: leading zero, hyphen, blank
\* inside, float with .0
Variants12 == {Zero12, Hyphen12, Blank12, Float12}

\* the data rows of a sales sheet carry 'Sale' in the entry type column
IsSaleRow(row) == Len(row) = 5 /\ row[2] = Str(<<"Sale">>)

OneLedgerVariant ==
    /\ master_up # NoUpload
    /\ Len(master_up.tab.rows) = 1
    /\ master_up.tab.rows[1][1] \in Variants12

OneSalesVariant ==
    /\ sales_up # NoUpload
    /\ \E h \in 1..Len(sales_up.tab.rows) :
          /\ sales_up.tab.rows[h] = SalesHeader
          /\ Len(sales_up.tab.rows) = h + 1
          /\ IsSaleRow(sales_up.tab.rows[h + 1])
          /\ sales_up.tab.rows[h + 1][3] \in Variants12
          /\ ~RowHasNull(Tail(sales_up.tab.rows[h + 1]))

OneInvoiceVariant ==
    /\ parsed.err = "none"
    /\ HasCol(parsed.tab, UPCCode)
    /\ Len(parsed.tab.rows) = 1
    /\ Cell(parsed.tab, parsed.tab.rows[1], UPCCode) \in Variants12 \cup {IntC(12)}

\* C5: when the ledger, the sales sheet and the extracted invoice each hold
\* one row of product 12, in any of the spellings, the run reconciles and the
\* ledger row is matched by the sales row and by the invoice row.
C5_KeyEquivalence ==
    (pc = "done" /\ OneLedgerVariant /\ OneSalesVariant /\ OneInvoiceVariant) =>
        /\ outcome = Ended("reconciled")
        /\ Len(result.tab.rows) = 1
        /\ Cell(result.tab, result.tab.rows[1], quantity_sold) = IntC(1)
        /\ Cell(result.tab, result.tab.rows[1], quantity_received) = IntC(1)

GateReached ==
    pc = "done" /\ (outcome.kind # "exception" \/ result # NoResult)

\* C6: at the end of a run that got to line 170, update_master_sheet was
\* called exactly when the ledger was uploaded and the sales table or the
\* invoice table is not empty; otherwise the run ended with a missing-input
\* error.
C6_RunGating ==
    GateReached =>
        ((result # NoResult)
            <=> (master_df # None /\ (~IsEmpty(sales_df) \/ ~IsEmpty(invoice_df))))

\* C7: when the run has ended, on whichever path, no temporary file and no
\* file at the adapter is left.
C7_ArtifactsReleased == pc = "done" => (tempfiles = {} /\ remote = {})

\* C8: generate_content returns a response with text or raises; it never
\* returns without a response.
C8_ExtractionSignalled == gen \in {"not called", "returned response", "raised"}

\* C9: on a sheet without a row holding both tokens clean_sales_xlsx raises
\* nothing and returns the sheet as it was.
C9_SalesDegraded ==
    (salesRes # NoResult /\ HeaderRows(sales_up.tab) = {}) => salesRes = Ok(sales_up.tab)

\* No sheet spells an identifier 'nan': a sales or invoice row has the key
\* 'nan' only if its identifier was null, and a ledger row only if cleaning
\* left it without identifier.
NanKey == Str(<<"n", "a", "n">>)

\* C10: after cleaning and update_master_sheet, no sales or invoice row with a
\* null identifier has contributed to a ledger row: the output row of a ledger
\* row without identifier has quantity_sold = 0 and quantity_received = 0.
C10_NullKeysFailClosed ==
    outcome = Ended("reconciled") =>
        \A r \in 1..Len(result.tab.rows) :
            Cell(result.tab, result.tab.rows[r], UPC) = NanKey =>
                /\ Cell(result.tab, result.tab.rows[r], quantity_sold) = IntC(0)
                /\ Cell(result.tab, result.tab.rows[r], quantity_received) = IntC(0)

----------------------------------------------------------------------------
(* update_master_sheet on its own: the tables are drawn, the function is   *)
(* applied once.                                                           *)

MaxLedgerRows == 2
MaxSalesRows == 2
MaxInvoiceRows == 2

\* Rows the three tables are built from.  The identifiers "1" and "2" come
\* with the blanks KeyStr strips; stocks and quantities are whole (2, 1),
\* fractional (0.5, 1.5), blank (NaN) or text that is no number ("x").
ReconLedgerRows ==
    {<<Str(<<"1">>), IntC(2)>>, <<Str(<<"1">>), Flt(1)>>, <<Str(<<"2">>), NaN>>}

ReconSalesRows ==
    {<<Str(<<"1">>), Str(<<"a">>), IntC(1)>>, <<Str(<<"1">>), Str(<<"a">>), Flt(1)>>,
     <<Str(<<"2", " ">>), Str(<<"a">>), IntC(1)>>, <<Str(<<"2", " ">>), Str(<<"a">>), NaN>>}

ReconInvoiceRows ==
    {<<Str(<<" ", "1">>), Str(<<"b">>), IntC(1)>>, <<Str(<<" ", "1">>), Str(<<"b">>), Flt(3)>>,
     <<Str(<<"2">>), Str(<<"b">>), IntC(2)>>, <<Str(<<"2">>), Str(<<"b">>), Str(<<"x">>)>>}

ReconLedgers ==
    {DataFrame(<<UPC, current_stock>>, rows) :
        rows \in SeqsUpTo(ReconLedgerRows, MaxLedgerRows)}

ReconSales ==
    {DataFrame(<<ItemNo, Description, Units>>, rows) :
        rows \in SeqsUpTo(ReconSalesRows, MaxSalesRows)}

ReconInvoices ==
    {DataFrame(<<UPCCode, ProductDescription, QuantityConfirmed>>, rows) :
        rows \in SeqsUpTo(ReconInvoiceRows, MaxInvoiceRows)}

InitRecon ==
    /\ pc = "recon"
    /\ master_df \in {Ok(df) : df \in ReconLedgers}
    /\ sales_df \in ReconSales
    /\ invoice_df \in ReconInvoices
    /\ parsed = NoResult
    /\ invoice_up = "none"
    /\ sales_up = NoUpload
    /\ master_up = NoUpload
    /\ tempfiles = {}
    /\ remote = {}
    /\ gen = "not called"
    /\ salesRes = NoResult
    /\ result = NoResult
    /\ outcome = Running

Reconcile ==
    /\ pc = "recon"
    /\ result' = update_master_sheet(master_df.tab, sales_df, invoice_df)
    /\ pc' = "reconciled"
    /\ UNCHANGED <<invoice_up, sales_up, master_up, master_df, sales_df, invoice_df,
                   parsed, tempfiles, remote, gen, salesRes, outcome>>

NextRecon == Reconcile

SpecRecon == InitRecon /\ [][NextRecon]_vars

----------------------------------------------------------------------------
(* Claims about update_master_sheet, checked under SpecRecon               *)

Returned == pc = "reconciled" /\ result.err = "none"

OutRows == result.tab.rows

\* a presented (integer) column of one output row
Out(row, lab) == Cell(result.tab, row, lab).h

\* the quantities, coerced as lines 40-41 coerce them, of the rows of a
\* transaction table whose identifier is written as key once stripped
RECURSIVE SumOfKey(_, _, _, _, _)
SumOfKey(df, rows, keyLab, qtyLab, key) ==
    IF rows = <<>> THEN 0
    ELSE (IF KeyStr(Cell(df, Head(rows), keyLab)) = key
          THEN Coerce(Cell(df, Head(rows), qtyLab)).h ELSE 0)
             + SumOfKey(df, Tail(rows), keyLab, qtyLab, key)

\* in halves
SoldOf(key) == SumOfKey(sales_df, sales_df.rows, ItemNo, Units, key)
ReceivedOf(key) == SumOfKey(invoice_df, invoice_df.rows, UPCCode, QuantityConfirmed, key)

CountOfKey(df, keyLab, key) ==
    Cardinality({r \in 1..Len(df.rows) : KeyStr(Cell(df, df.rows[r], keyLab)) = key})

Conserved(row) ==
    Out(row, new_stock) - Out(row, current_stock)
        = Out(row, quantity_received) - Out(row, quantity_sold)

IsWhole(h) == h % 2 = 0

\* C1 as stated: in every row of the returned table the presented columns
\* satisfy new_stock - current_stock = quantity_received - quantity_sold.
C1_Conservation ==
    Returned => \A r \in 1..Len(OutRows) : Conserved(OutRows[r])

\* the ledger row an output row was made from, when no row was lost or added
LedgerStock(r) == Coerce(Cell(master_df.tab, master_df.tab.rows[r], current_stock)).h

WholeRow(r) ==
    /\ r <= Len(master_df.tab.rows)
    /\ IsWhole(LedgerStock(r))
    /\ IsWhole(SoldOf(Cell(result.tab, OutRows[r], UPC)))
    /\ IsWhole(ReceivedOf(Cell(result.tab, OutRows[r], UPC)))

\* C1 amended: update_master_sheet returns a table, and every row of it whose
\* coerced current_stock, summed Units and summed Quantity Confirmed are whole
\* numbers satisfies new_stock - current_stock = quantity_received -
\* quantity_sold in the presented columns.
C1_ConservationWhole ==
    pc = "reconciled" =>
        /\ result.err = "none"
        /\ \A r \in 1..Len(OutRows) : WholeRow(r) => Conserved(OutRows[r])

C1_Witness ==
    /\ Returned
    /\ \E r \in 1..Len(OutRows) :
          /\ WholeRow(r)
          /\ Out(OutRows[r], current_stock) = 2
          /\ Out(OutRows[r], quantity_sold) = 2
          /\ Out(OutRows[r], quantity_received) = 1
          /\ Out(OutRows[r], new_stock) = 1

\* C2: the returned table has exactly as many rows as the ledger passed in.
C2_NoRowLoss ==
    pc = "reconciled" =>
        /\ result.err = "none"
        /\ Len(OutRows) = Len(master_df.tab.rows)

\* a ledger with one key twice, that key on two sales rows and two invoice rows
C2_Witness ==
    /\ Returned
    /\ Len(master_df.tab.rows) = 2
    /\ KeyStr(master_df.tab.rows[1][1]) = KeyStr(master_df.tab.rows[2][1])
    /\ CountOfKey(sales_df, ItemNo, KeyStr(master_df.tab.rows[1][1])) = 2
    /\ CountOfKey(invoice_df, UPCCode, KeyStr(master_df.tab.rows[1][1])) = 2
    /\ Len(OutRows) = 2

\* C3 as stated: quantity_sold is the sum of Units over all sales rows with the
\* row's key, quantity_received the sum of Quantity Confirmed over all invoice
\* rows with it.
C3_SumByKey ==
    Returned =>
        \A r \in 1..Len(OutRows) :
            /\ 2 * Out(OutRows[r], quantity_sold) = SoldOf(Cell(result.tab, OutRows[r], UPC))
            /\ 2 * Out(OutRows[r], quantity_received)
                  = ReceivedOf(Cell(result.tab, OutRows[r], UPC))

\* C3 amended: update_master_sheet returns a table, and in every row of it
\* quantity_sold is the sum of Units over all sales rows with the row's key and
\* quantity_received the sum of Quantity Confirmed over all invoice rows with
\* it (invalid or blank quantities counting 0), each cast to an integer by
\* truncation toward zero.
C3_SumByKeyTruncated ==
    pc = "reconciled" =>
        /\ result.err = "none"
        /\ \A r \in 1..Len(OutRows) :
              /\ Out(OutRows[r], quantity_sold)
                    = Trunc(SoldOf(Cell(result.tab, OutRows[r], UPC)))
              /\ Out(OutRows[r], quantity_received)
                    = Trunc(ReceivedOf(Cell(result.tab, OutRows[r], UPC)))

\* two sales rows and two invoice rows of one key, summed to 2 and to 2
C3_Witness ==
    /\ Returned
    /\ \E r \in 1..Len(OutRows) :
          /\ CountOfKey(sales_df, ItemNo, Cell(result.tab, OutRows[r], UPC)) = 2
          /\ CountOfKey(invoice_df, UPCCode, Cell(result.tab, OutRows[r], UPC)) = 2
          /\ Out(OutRows[r], quantity_sold) = 2
          /\ Out(OutRows[r], quantity_received) = 2

AbsentFromBoth(key) ==
    CountOfKey(sales_df, ItemNo, key) = 0 /\ CountOfKey(invoice_df, UPCCode, key) = 0

\* C4: update_master_sheet returns a table, and a row of it whose key is on no
\* sales row and on no invoice row has quantity_sold = 0, quantity_received = 0
\* and new_stock = current_stock.
C4_ZeroFill ==
    pc = "reconciled" =>
        /\ result.err = "none"
        /\ \A r \in 1..Len(OutRows) :
              AbsentFromBoth(Cell(result.tab, OutRows[r], UPC)) =>
                  /\ Out(OutRows[r], quantity_sold) = 0
                  /\ Out(OutRows[r], quantity_received) = 0
                  /\ Out(OutRows[r], new_stock) = Out(OutRows[r], current_stock)

\* a ledger key absent from non-empty sales and invoice tables, stock 2
C4_Witness ==
    /\ Returned
    /\ sales_df.rows # <<>>
    /\ invoice_df.rows # <<>>
    /\ \E r \in 1..Len(OutRows) :
          /\ AbsentFromBoth(Cell(result.tab, OutRows[r], UPC))
          /\ Out(OutRows[r], current_stock) = 2
          /\ Out(OutRows[r], new_stock) = 2

====
